---- MODULE Spec2Model ----
(***************************************************************************)
(* Model of the actor messaging substrate (queue, sender, receiver,        *)
(* dispatcher chain) and of the ATM state machine built on it              *)
(* (src/queue.hpp), driven by the keyboard loop of src/main.cpp.           *)
(***************************************************************************)
EXTENDS Integers, Sequences, FiniteSets, TLC

\* ------------------------------------------------------------------ bounds

\* The keyboard loop reads its next character only while every queue holds
\* fewer than MaxQueue messages (the queues themselves are unbounded).
MaxQueue == 2

\* Largest number of handle cases of a chain built by the generic agent.
MaxChain == 2

\* Largest number of messages sent to the generic agent.
MaxSent == 2

\* ------------------------------------------------------------------ messages

NULL == "null"

\* The queues of the three receivers; a sender is bound to one of them or is NULL.
QueueNames == {"atm", "bank", "interface"}

\* wrapped_message<Msg_T>: the shape is the dynamic type, the rest the contents.
\* id is the position of the push on its queue in a scripted run, else 0; re is,
\* in a reply of the bank in a scripted run, the id of the request it answers,
\* else 0.
wrapped_message(shape) ==
    [shape |-> shape, account |-> "", amount |-> 0, pin |-> <<>>, digit |-> 0,
     atm_queue |-> NULL, id |-> 0, re |-> 0]

close_queue == wrapped_message("close_queue")

withdraw(account, amount, atm_queue) ==
    [wrapped_message("withdraw") EXCEPT
        !.account = account, !.amount = amount, !.atm_queue = atm_queue]

withdraw_ok == wrapped_message("withdraw_ok")

withdraw_denied == wrapped_message("withdraw_denied")

cancel_withdrawal(account, amount) ==
    [wrapped_message("cancel_withdrawal") EXCEPT !.account = account, !.amount = amount]

withdrawal_processed(account, amount) ==
    [wrapped_message("withdrawal_processed") EXCEPT !.account = account, !.amount = amount]

card_inserted(account) ==
    [wrapped_message("card_inserted") EXCEPT !.account = account]

digit_pressed(digit) ==
    [wrapped_message("digit_pressed") EXCEPT !.digit = digit]

clear_last_pressed == wrapped_message("clear_last_pressed")

eject_card == wrapped_message("eject_card")

withdraw_pressed(amount) ==
    [wrapped_message("withdraw_pressed") EXCEPT !.amount = amount]

cancel_pressed == wrapped_message("cancel_pressed")

issue_money(amount) ==
    [wrapped_message("issue_money") EXCEPT !.amount = amount]

verify_pin(account, pin, atm_queue) ==
    [wrapped_message("verify_pin") EXCEPT
        !.account = account, !.pin = pin, !.atm_queue = atm_queue]

pin_verified == wrapped_message("pin_verified")

pin_incorrect == wrapped_message("pin_incorrect")

display_enter_pin == wrapped_message("display_enter_pin")

display_enter_card == wrapped_message("display_enter_card")

display_insufficient_funds == wrapped_message("display_insufficient_funds")

display_withdrawal_cancelled == wrapped_message("display_withdrawal_cancelled")

display_pin_incorrect_message == wrapped_message("display_pin_incorrect_message")

display_withdrawal_options == wrapped_message("display_withdrawal_options")

get_balance(account, atm_queue) ==
    [wrapped_message("get_balance") EXCEPT !.account = account, !.atm_queue = atm_queue]

balance(amount) ==
    [wrapped_message("balance") EXCEPT !.amount = amount]

display_balance(amount) ==
    [wrapped_message("display_balance") EXCEPT !.amount = amount]

balance_pressed == wrapped_message("balance_pressed")

\* ------------------------------------------------------------------ state

VARIABLES
    stdin,               \* main: the scripted input not yet read (<<>> when the input is unknown)
    scripted,            \* TRUE in a run over a given input script, whose pushes and pops are recorded
    main_pc,             \* main: position of the main thread
    queues,              \* queue::q of the three receivers
    sent,                \* ghost: every message pushed on each queue, in push order
    popped,              \* ghost: every pop of the ATM's queue with its fate, in pop order
    fate,                \* ghost: the fate of the last message popped from the ATM's queue
    atm_pc,              \* atm::run: position of the ATM thread
    state_,              \* atm::state_
    account_,            \* atm::account_
    pin_,                \* atm::pin_
    withdrawal_amount_,  \* atm::withdrawal_amount_
    bank_,               \* atm::bank_
    interface_hardware_, \* atm::interface_hardware_
    chain,               \* the dispatcher temporaries of the receive turn in progress
    moved_from,          \* the dispatcher of the turn that was moved from, not yet destroyed
    bank_pc,             \* bank_machine::run position
    if_pc                \* interface_machine::run position

vars == <<stdin, scripted, main_pc, queues, sent, popped, fate, atm_pc, state_, account_,
          pin_, withdrawal_amount_, bank_, interface_hardware_, chain, moved_from,
          bank_pc, if_pc>>

\* ------------------------------------------------------------------ queue

\* The queues together with the record of what was pushed on them.
Net == [q |-> queues, log |-> sent]

\* A push that puts the message at the front of the queue.
push_front(net, name, msg) ==
    LET stamped == IF scripted THEN [msg EXCEPT !.id = Len(net.log[name]) + 1] ELSE msg
    IN [q   |-> [net.q EXCEPT ![name] = <<stamped>> \o @],
        log |-> IF scripted THEN [net.log EXCEPT ![name] = Append(@, stamped)] ELSE net.log]

\* queue::push: the message goes to the back of the queue.
push(net, name, msg) ==
    LET stamped == IF scripted THEN [msg EXCEPT !.id = Len(net.log[name]) + 1] ELSE msg
    IN [q   |-> [net.q EXCEPT ![name] = Append(@, stamped)],
        log |-> IF scripted THEN [net.log EXCEPT ![name] = Append(@, stamped)] ELSE net.log]

\* A pop that returns the front and leaves it in the queue.
wait_and_pop_front_only(queue) == [msg |-> Head(queue), rest |-> queue]

\* queue::wait_and_pop: enabled once the queue is not empty; takes the front.
wait_and_pop(queue) == [msg |-> Head(queue), rest |-> Tail(queue)]

\* A send without the test of q_: what an unbound sender sends ends up in the
\* bank's queue.
send_unchecked(net, sender, msg) ==
    push(net, IF sender # NULL THEN sender ELSE "bank", msg)

\* sender::send: a push on the bound queue, nothing on a default-constructed sender.
send(net, sender, msg) ==
    IF sender # NULL THEN push(net, sender, msg) ELSE net

\* receiver::operator sender(): a sender bound to the receiver's queue.
get_sender(receiver) == receiver

\* ------------------------------------------------------------------ dispatcher chain

\* dispatcher::dispatcher(queue *): the base of a chain, not chained.
dispatcher == [kind |-> "dispatcher", shape |-> "close_queue", chained |-> FALSE]

\* TemplateDispatcher::TemplateDispatcher(q, prev, f): a link for one shape, not chained.
TemplateDispatcher(shape) ==
    [kind |-> "TemplateDispatcher", shape |-> shape, chained |-> FALSE]

\* receiver::wait: the temporaries of a turn, oldest first; prev_ of link k is link k-1.
wait == <<dispatcher>>

\* A handle whose new link does not mark its predecessor chained.
handle_unmarked(ch, shape) == Append(ch, TemplateDispatcher(shape))

\* dispatcher::handle / TemplateDispatcher::handle: a new link behind which the
\* previous one is marked chained.
handle(ch, shape) ==
    Append([ch EXCEPT ![Len(ch)].chained = TRUE], TemplateDispatcher(shape))

\* A dispatch that gives the message to the first registered case of its shape.
dispatch_oldest_first(ch, k, msg) ==
    LET matching == {i \in 2..k : ch[i].shape = msg.shape}
        oldest == CHOOSE i \in matching : \A j \in matching : i <= j
    IN IF matching # {}
       THEN [probes |-> [i \in 1..(k - oldest + 1) |-> k + 1 - i], ran |-> <<oldest>>,
             thrown |-> FALSE]
       ELSE [probes |-> [i \in 1..k |-> k + 1 - i], ran |-> <<>>,
             thrown |-> (msg.shape = "close_queue")]

\* A dispatch whose base dispatcher returns false for close_queue as well.
RECURSIVE dispatch_never_throws(_, _, _)
dispatch_never_throws(ch, k, msg) ==
    IF ch[k].kind = "dispatcher"
    THEN [probes |-> <<k>>, ran |-> <<>>, thrown |-> FALSE]
    ELSE IF msg.shape = ch[k].shape
         THEN [probes |-> <<k>>, ran |-> <<k>>, thrown |-> FALSE]
         ELSE LET r == dispatch_never_throws(ch, k - 1, msg)
              IN [r EXCEPT !.probes = <<k>> \o @]

\* dispatcher::dispatch and TemplateDispatcher::dispatch from link k: the links the
\* message is offered to (probes), the links whose handler runs (ran), and whether
\* close_queue is thrown.
RECURSIVE dispatch(_, _, _)
dispatch(ch, k, msg) ==
    IF ch[k].kind = "dispatcher"
    THEN [probes |-> <<k>>, ran |-> <<>>, thrown |-> (msg.shape = "close_queue")]
    ELSE IF msg.shape = ch[k].shape
         THEN [probes |-> <<k>>, ran |-> <<k>>, thrown |-> FALSE]
         ELSE LET r == dispatch(ch, k - 1, msg)
              IN [r EXCEPT !.probes = <<k>> \o @]

\* dispatcher::dispatcher(dispatcher &&): the destination takes the source's
\* flag and the source's flag is set to false.
dispatcher_move(other) ==
    [dest |-> [other EXCEPT !.chained = other.chained],
     other |-> [other EXCEPT !.chained = FALSE]]

\* TemplateDispatcher::TemplateDispatcher(TemplateDispatcher &&): the destination
\* takes the source's case, predecessor and flag and the source's flag is set
\* to true.
TemplateDispatcher_move(other) ==
    [dest |-> [other EXCEPT !.chained = other.chained],
     other |-> [other EXCEPT !.chained = TRUE]]

\* The move constructor of a link of either kind.
move(other) ==
    IF other.kind = "dispatcher" THEN dispatcher_move(other) ELSE TemplateDispatcher_move(other)

\* ~TemplateDispatcher / ~dispatcher at the end of the full expression: the
\* temporaries are destroyed newest first, a chained one does nothing, and the
\* first one not chained blocks in its wait_and_dispatch. The result is what is
\* left of the chain at that point (<<>> when every destructor has returned).
RECURSIVE destroy(_)
destroy(ch) ==
    IF ch = <<>> THEN <<>>
    ELSE IF ~ch[Len(ch)].chained THEN ch
         ELSE destroy(SubSeq(ch, 1, Len(ch) - 1))

\* ------------------------------------------------------------------ ATM state machine

\* unsigned const pin_length = 4 in the digit_pressed handler of getting_pin.
pin_length == 4

\* atm::incoming_: the ATM's receiver owns the queue named "atm".
incoming_ == "atm"

NoMsg == wrapped_message("none")

\* The effect of a handler that sends nothing and assigns nothing.
stay ==
    [sends |-> <<>>, state_ |-> state_, account_ |-> account_, pin_ |-> pin_,
     withdrawal_amount_ |-> withdrawal_amount_]

to(sender, msg) == [to |-> sender, msg |-> msg]

\* The sends of one step, in program order.
RECURSIVE send_all(_, _)
send_all(net, sends) ==
    IF sends = <<>> THEN net
    ELSE send_all(send(net, Head(sends).to, Head(sends).msg), Tail(sends))

\* --- the handlers (the lambdas of each state function), as their effects

process_withdrawal_withdraw_ok(msg) ==
    [stay EXCEPT
        !.sends = <<to(interface_hardware_, issue_money(withdrawal_amount_)),
                    to(bank_, withdrawal_processed(account_, withdrawal_amount_))>>,
        !.state_ = "done_processing"]

\* A withdraw_denied handler that issues the money all the same.
process_withdrawal_withdraw_denied_issues(msg) ==
    [stay EXCEPT
        !.sends = <<to(interface_hardware_, issue_money(withdrawal_amount_)),
                    to(interface_hardware_, display_insufficient_funds)>>,
        !.state_ = "done_processing"]

process_withdrawal_withdraw_denied(msg) ==
    [stay EXCEPT
        !.sends = <<to(interface_hardware_, display_insufficient_funds)>>,
        !.state_ = "done_processing"]

\* A cancel_pressed handler that does not tell the bank.
process_withdrawal_cancel_pressed_silent(msg) ==
    [stay EXCEPT
        !.sends = <<to(interface_hardware_, display_withdrawal_cancelled)>>,
        !.state_ = "done_processing"]

process_withdrawal_cancel_pressed(msg) ==
    [stay EXCEPT
        !.sends = <<to(bank_, cancel_withdrawal(account_, withdrawal_amount_)),
                    to(interface_hardware_, display_withdrawal_cancelled)>>,
        !.state_ = "done_processing"]

\* A balance handler that displays the remembered withdrawal amount.
process_balance_balance_wrong_amount(msg) ==
    [stay EXCEPT
        !.sends = <<to(interface_hardware_, display_balance(withdrawal_amount_))>>,
        !.state_ = "wait_for_action"]

process_balance_balance(msg) ==
    [stay EXCEPT
        !.sends = <<to(interface_hardware_, display_balance(msg.amount))>>,
        !.state_ = "wait_for_action"]

process_balance_cancel_pressed(msg) ==
    [stay EXCEPT !.state_ = "done_processing"]

wait_for_action_withdraw_pressed(msg) ==
    [stay EXCEPT
        !.withdrawal_amount_ = msg.amount,
        !.sends = <<to(bank_, withdraw(account_, msg.amount, get_sender(incoming_)))>>,
        !.state_ = "process_withdrawal"]

wait_for_action_balance_pressed(msg) ==
    [stay EXCEPT
        !.sends = <<to(bank_, get_balance(account_, get_sender(incoming_)))>>,
        !.state_ = "process_balance"]

\* A cancel_pressed handler that goes back to waiting_for_card directly.
wait_for_action_cancel_pressed_no_done(msg) ==
    [stay EXCEPT !.state_ = "waiting_for_card"]

wait_for_action_cancel_pressed(msg) ==
    [stay EXCEPT !.state_ = "done_processing"]

verifying_pin_pin_verified(msg) ==
    [stay EXCEPT !.state_ = "wait_for_action"]

verifying_pin_pin_incorrect(msg) ==
    [stay EXCEPT
        !.sends = <<to(interface_hardware_, display_pin_incorrect_message)>>,
        !.state_ = "done_processing"]

verifying_pin_cancel_pressed(msg) ==
    [stay EXCEPT !.state_ = "done_processing"]

getting_pin_digit_pressed(msg) ==
    LET pin == Append(pin_, msg.digit)
    IN IF Len(pin) = pin_length
       THEN [stay EXCEPT
                !.pin_ = pin,
                !.sends = <<to(bank_, verify_pin(account_, pin, get_sender(incoming_)))>>,
                !.state_ = "verifying_pin"]
       ELSE [stay EXCEPT !.pin_ = pin]

\* A clear_last_pressed handler that clears the whole PIN.
getting_pin_clear_last_pressed_all(msg) ==
    [stay EXCEPT !.pin_ = <<>>]

getting_pin_clear_last_pressed(msg) ==
    IF pin_ # <<>>
    THEN [stay EXCEPT !.pin_ = SubSeq(pin_, 1, Len(pin_) - 1)]
    ELSE stay

\* A cancel_pressed handler of getting_pin that goes to wait_for_action.
getting_pin_cancel_pressed_to_menu(msg) ==
    [stay EXCEPT !.state_ = "wait_for_action"]

getting_pin_cancel_pressed(msg) ==
    [stay EXCEPT !.state_ = "done_processing"]

\* A card_inserted handler that keeps the PIN of the previous session.
waiting_for_card_card_inserted_keeps_pin(msg) ==
    [stay EXCEPT
        !.account_ = msg.account,
        !.sends = <<to(interface_hardware_, display_enter_pin)>>,
        !.state_ = "getting_pin"]

waiting_for_card_card_inserted(msg) ==
    [stay EXCEPT
        !.account_ = msg.account,
        !.pin_ = <<>>,
        !.sends = <<to(interface_hardware_, display_enter_pin)>>,
        !.state_ = "getting_pin"]

\* --- the chains the state functions build: incoming_.wait().handle<..>()...

process_withdrawal_chain ==
    handle(handle(handle(wait, "withdraw_ok"), "withdraw_denied"), "cancel_pressed")

process_balance_chain == handle(handle(wait, "balance"), "cancel_pressed")

wait_for_action_chain ==
    handle(handle(handle(wait, "withdraw_pressed"), "balance_pressed"), "cancel_pressed")

verifying_pin_chain ==
    handle(handle(handle(wait, "pin_verified"), "pin_incorrect"), "cancel_pressed")

getting_pin_chain ==
    handle(handle(handle(wait, "digit_pressed"), "clear_last_pressed"), "cancel_pressed")

waiting_for_card_chain == handle(wait, "card_inserted")

\* --- steps of the ATM thread

\* What a step of the receiving agent leaves alone.
AgentFrame ==
    UNCHANGED <<stdin, scripted, main_pc, bank_, interface_hardware_, moved_from, bank_pc,
                if_pc>>

\* The record of a pop: the message, the state function and chain that popped
\* it, the links it was offered to, the links whose handler ran, and its fate.
Popped(msg, f, r) ==
    IF scripted
    THEN Append(popped, [msg |-> msg, fate |-> f, st |-> state_, chain |-> chain,
                         probes |-> r.probes, ran |-> r.ran])
    ELSE popped

\* atm::run up to the loop: state_ = &atm::waiting_for_card.
run ==
    /\ atm_pc = "start"
    /\ state_' = "waiting_for_card"
    /\ atm_pc' = "call"
    /\ UNCHANGED <<queues, sent, popped, fate, account_, pin_, withdrawal_amount_, chain>>
    /\ AgentFrame

\* A state function up to the point where its chain's destructors run: the sends
\* on entry, the chain, and the tail blocking in wait_and_dispatch.
Enter(st, sends, built) ==
    /\ atm_pc = "call"
    /\ state_ = st
    /\ LET net == send_all(Net, sends)
       IN /\ queues' = net.q
          /\ sent' = net.log
    /\ chain' = destroy(built)
    /\ atm_pc' = IF chain' = <<>> THEN "call" ELSE "recv"
    /\ UNCHANGED <<popped, fate, state_, account_, pin_, withdrawal_amount_>>
    /\ AgentFrame

process_withdrawal == Enter("process_withdrawal", <<>>, process_withdrawal_chain)

process_balance == Enter("process_balance", <<>>, process_balance_chain)

wait_for_action ==
    Enter("wait_for_action", <<to(interface_hardware_, display_withdrawal_options)>>,
          wait_for_action_chain)

verifying_pin == Enter("verifying_pin", <<>>, verifying_pin_chain)

getting_pin == Enter("getting_pin", <<>>, getting_pin_chain)

waiting_for_card ==
    Enter("waiting_for_card", <<to(interface_hardware_, display_enter_card)>>,
          waiting_for_card_chain)

\* A done_processing that forgets the eject_card.
done_processing_no_eject ==
    /\ atm_pc = "call"
    /\ state_ = "done_processing"
    /\ state_' = "waiting_for_card"
    /\ UNCHANGED <<queues, sent, popped, fate, atm_pc, account_, pin_, withdrawal_amount_,
                   chain>>
    /\ AgentFrame

\* atm::done_processing: no receive.
done_processing ==
    /\ atm_pc = "call"
    /\ state_ = "done_processing"
    /\ LET sends == <<to(interface_hardware_, eject_card)>>
           net == send_all(Net, sends)
       IN /\ queues' = net.q
          /\ sent' = net.log
    /\ state_' = "waiting_for_card"
    /\ UNCHANGED <<popped, fate, atm_pc, account_, pin_, withdrawal_amount_, chain>>
    /\ AgentFrame

\* The message the pop of this iteration returns.
popped_msg == wait_and_pop(queues[incoming_]).msg

\* An iteration over a pop that does not wait: on an empty queue it returns
\* nothing and the turn ends without a handler.
Handled_try_pop(st, shape, effect) ==
    /\ atm_pc = "recv"
    /\ state_ = st
    /\ IF queues[incoming_] = <<>>
       THEN /\ chain' = <<>>
            /\ atm_pc' = "call"
            /\ UNCHANGED <<queues, sent, popped, fate, state_, account_, pin_,
                           withdrawal_amount_>>
       ELSE LET p == wait_and_pop(queues[incoming_])
                r == dispatch(chain, Len(chain), p.msg)
                e == effect
                net == send_all([q |-> [queues EXCEPT ![incoming_] = p.rest], log |-> sent],
                                e.sends)
            IN /\ r.ran # <<>>
               /\ chain[r.ran[1]].shape = shape
               /\ queues' = net.q
               /\ sent' = net.log
               /\ state_' = e.state_
               /\ account_' = e.account_
               /\ pin_' = e.pin_
               /\ withdrawal_amount_' = e.withdrawal_amount_
               /\ popped' = Popped(p.msg, "handled", r)
               /\ fate' = "handled"
               /\ chain' = destroy(SubSeq(chain, 1, Len(chain) - 1))
               /\ atm_pc' = IF chain' = <<>> THEN "call" ELSE "recv"
    /\ AgentFrame

\* One iteration of TemplateDispatcher::wait_and_dispatch in the tail of the chain
\* of state function st that ends in the handler of the case for shape, whose
\* effect on the popped message is given: the pop, the dispatch, the handler,
\* the break, and the destructors of the earlier links.
Handled(st, shape, effect) ==
    /\ atm_pc = "recv"
    /\ state_ = st
    /\ queues[incoming_] # <<>>
    /\ LET p == wait_and_pop(queues[incoming_])
           r == dispatch(chain, Len(chain), p.msg)
       IN /\ r.ran # <<>>
          /\ chain[r.ran[1]].shape = shape
          /\ LET e == effect
                 net == send_all([q |-> [queues EXCEPT ![incoming_] = p.rest], log |-> sent],
                                 e.sends)
             IN /\ queues' = net.q
                /\ sent' = net.log
                /\ state_' = e.state_
                /\ account_' = e.account_
                /\ pin_' = e.pin_
                /\ withdrawal_amount_' = e.withdrawal_amount_
          /\ popped' = Popped(p.msg, "handled", r)
          /\ fate' = "handled"
    /\ chain' = destroy(SubSeq(chain, 1, Len(chain) - 1))
    /\ atm_pc' = IF chain' = <<>> THEN "call" ELSE "recv"
    /\ AgentFrame

on_process_withdrawal_withdraw_ok ==
    Handled("process_withdrawal", "withdraw_ok", process_withdrawal_withdraw_ok(popped_msg))

on_process_withdrawal_withdraw_denied ==
    Handled("process_withdrawal", "withdraw_denied", process_withdrawal_withdraw_denied(popped_msg))

on_process_withdrawal_cancel_pressed ==
    Handled("process_withdrawal", "cancel_pressed", process_withdrawal_cancel_pressed(popped_msg))

on_process_balance_balance ==
    Handled("process_balance", "balance", process_balance_balance(popped_msg))

on_process_balance_cancel_pressed ==
    Handled("process_balance", "cancel_pressed", process_balance_cancel_pressed(popped_msg))

on_wait_for_action_withdraw_pressed ==
    Handled("wait_for_action", "withdraw_pressed", wait_for_action_withdraw_pressed(popped_msg))

on_wait_for_action_balance_pressed ==
    Handled("wait_for_action", "balance_pressed", wait_for_action_balance_pressed(popped_msg))

on_wait_for_action_cancel_pressed ==
    Handled("wait_for_action", "cancel_pressed", wait_for_action_cancel_pressed(popped_msg))

on_verifying_pin_pin_verified ==
    Handled("verifying_pin", "pin_verified", verifying_pin_pin_verified(popped_msg))

on_verifying_pin_pin_incorrect ==
    Handled("verifying_pin", "pin_incorrect", verifying_pin_pin_incorrect(popped_msg))

on_verifying_pin_cancel_pressed ==
    Handled("verifying_pin", "cancel_pressed", verifying_pin_cancel_pressed(popped_msg))

on_getting_pin_digit_pressed ==
    Handled("getting_pin", "digit_pressed", getting_pin_digit_pressed(popped_msg))

on_getting_pin_clear_last_pressed ==
    Handled("getting_pin", "clear_last_pressed", getting_pin_clear_last_pressed(popped_msg))

on_getting_pin_cancel_pressed ==
    Handled("getting_pin", "cancel_pressed", getting_pin_cancel_pressed(popped_msg))

on_waiting_for_card_card_inserted ==
    Handled("waiting_for_card", "card_inserted", waiting_for_card_card_inserted(popped_msg))

\* A wait_and_dispatch that leaves its loop whatever dispatch returned.
wait_and_dispatch_always_breaks ==
    /\ atm_pc = "recv"
    /\ queues[incoming_] # <<>>
    /\ LET p == wait_and_pop(queues[incoming_])
           r == dispatch(chain, Len(chain), p.msg)
       IN /\ r.ran = <<>>
          /\ ~r.thrown
          /\ queues' = [queues EXCEPT ![incoming_] = p.rest]
          /\ popped' = Popped(p.msg, "dropped", r)
          /\ fate' = "dropped"
    /\ chain' = <<>>
    /\ atm_pc' = "call"
    /\ UNCHANGED <<sent, state_, account_, pin_, withdrawal_amount_>>
    /\ AgentFrame

\* One iteration of wait_and_dispatch for a message no link takes and the base
\* dispatcher returns false for: the loop pops again.
wait_and_dispatch_unmatched ==
    /\ atm_pc = "recv"
    /\ queues[incoming_] # <<>>
    /\ LET p == wait_and_pop(queues[incoming_])
           r == dispatch(chain, Len(chain), p.msg)
       IN /\ r.ran = <<>>
          /\ ~r.thrown
          /\ queues' = [queues EXCEPT ![incoming_] = p.rest]
          /\ popped' = Popped(p.msg, "dropped", r)
          /\ fate' = "dropped"
    /\ UNCHANGED <<sent, atm_pc, state_, account_, pin_, withdrawal_amount_, chain>>
    /\ AgentFrame

\* A run whose catch is inside its loop: after close_queue the state function
\* is called again.
wait_and_dispatch_close_resumes ==
    /\ atm_pc = "recv"
    /\ queues[incoming_] # <<>>
    /\ LET p == wait_and_pop(queues[incoming_])
           r == dispatch(chain, Len(chain), p.msg)
       IN /\ r.ran = <<>>
          /\ r.thrown
          /\ queues' = [queues EXCEPT ![incoming_] = p.rest]
          /\ popped' = Popped(p.msg, "closed", r)
          /\ fate' = "closed"
    /\ chain' = <<>>
    /\ atm_pc' = "call"
    /\ UNCHANGED <<sent, state_, account_, pin_, withdrawal_amount_>>
    /\ AgentFrame

\* One iteration of wait_and_dispatch in which the base dispatcher throws
\* close_queue: the temporaries are unwound and atm::run catches and returns.
wait_and_dispatch_close ==
    /\ atm_pc = "recv"
    /\ queues[incoming_] # <<>>
    /\ LET p == wait_and_pop(queues[incoming_])
           r == dispatch(chain, Len(chain), p.msg)
       IN /\ r.ran = <<>>
          /\ r.thrown
          /\ queues' = [queues EXCEPT ![incoming_] = p.rest]
          /\ popped' = Popped(p.msg, "closed", r)
          /\ fate' = "closed"
    /\ chain' = <<>>
    /\ atm_pc' = "done"
    /\ UNCHANGED <<sent, state_, account_, pin_, withdrawal_amount_>>
    /\ AgentFrame

Atm ==
    \/ run
    \/ process_withdrawal
    \/ process_balance
    \/ wait_for_action
    \/ verifying_pin
    \/ getting_pin
    \/ waiting_for_card
    \/ done_processing
    \/ on_process_withdrawal_withdraw_ok
    \/ on_process_withdrawal_withdraw_denied
    \/ on_process_withdrawal_cancel_pressed
    \/ on_process_balance_balance
    \/ on_process_balance_cancel_pressed
    \/ on_wait_for_action_withdraw_pressed
    \/ on_wait_for_action_balance_pressed
    \/ on_wait_for_action_cancel_pressed
    \/ on_verifying_pin_pin_verified
    \/ on_verifying_pin_pin_incorrect
    \/ on_verifying_pin_cancel_pressed
    \/ on_getting_pin_digit_pressed
    \/ on_getting_pin_clear_last_pressed
    \/ on_getting_pin_cancel_pressed
    \/ on_waiting_for_card_card_inserted
    \/ wait_and_dispatch_unmatched
    \/ wait_and_dispatch_close

\* ------------------------------------------------------------------ main thread

\* The digit characters of the switch.
Digits == {"0", "1", "2", "3", "4", "5", "6", "7", "8", "9"}

\* The characters an unknown input is drawn from: one digit, the five letters
\* and ' ', which stands for every character without a case in the switch.
Chars == {"1", "b", "w", "c", "q", "i", " "}

\* The switch of main: the message a character makes the loop send, NoMsg for none.
key_message(c) ==
    CASE c \in Digits -> digit_pressed(c)
      [] c \in {"b", "B"} -> balance_pressed
      [] c \in {"w", "W"} -> withdraw_pressed(50)
      [] c \in {"c", "C"} -> cancel_pressed
      [] c \in {"i", "I"} -> card_inserted("acc1234")
      [] OTHER -> NoMsg

\* The next character getchar may return: the head of the script in a scripted
\* run, any character otherwise. "<" in a script is not a character: it marks
\* the point where a clear_last_pressed is sent.
NextChars ==
    IF scripted
    THEN (IF stdin # <<>> /\ Head(stdin) # "<" THEN {Head(stdin)} ELSE {})
    ELSE Chars

\* The producers of input send only while the ATM's and the bank's queue hold
\* fewer than MaxQueue messages and the interface has taken what was sent to it.
Room ==
    /\ Len(queues[incoming_]) < MaxQueue
    /\ Len(queues["bank"]) < MaxQueue
    /\ queues["interface"] = <<>>

MainFrame ==
    UNCHANGED <<scripted, popped, fate, atm_pc, state_, account_, pin_, withdrawal_amount_,
                bank_, interface_hardware_, chain, moved_from, bank_pc, if_pc>>

\* One iteration of the keyboard loop: getchar and the switch.
main_loop ==
    /\ main_pc = "loop"
    /\ Room
    /\ \E c \in NextChars :
          LET msg == key_message(c)
              net == IF msg = NoMsg THEN Net ELSE send(Net, get_sender(incoming_), msg)
          IN /\ queues' = net.q
             /\ sent' = net.log
             /\ main_pc' = IF c \in {"q", "Q"} THEN "bank_done" ELSE "loop"
    /\ stdin' = IF scripted THEN Tail(stdin) ELSE stdin
    /\ MainFrame

\* No key of main sends clear_last_pressed: it comes from another holder of
\* machine.get_sender(), at the marked point of a script or at any time.
clear_last_sender ==
    /\ main_pc = "loop"
    /\ Room
    /\ scripted => stdin # <<>> /\ Head(stdin) = "<"
    /\ LET net == send(Net, get_sender(incoming_), clear_last_pressed)
       IN /\ queues' = net.q
          /\ sent' = net.log
    /\ stdin' = IF scripted THEN Tail(stdin) ELSE stdin
    /\ UNCHANGED main_pc
    /\ MainFrame

\* bank_machine::done, atm::done, interface_machine::done: close_queue to oneself.
done(receiver, next) ==
    /\ LET net == send(Net, get_sender(receiver), close_queue)
       IN /\ queues' = net.q
          /\ sent' = net.log
    /\ main_pc' = next
    /\ UNCHANGED stdin
    /\ MainFrame

main_bank_done == main_pc = "bank_done" /\ done("bank", "machine_done")

main_machine_done == main_pc = "machine_done" /\ done(incoming_, "interface_done")

main_interface_done == main_pc = "interface_done" /\ done("interface", "join_atm")

\* std::thread::join: returns once the thread's run has returned.
join(at, thread_pc, next) ==
    /\ main_pc = at
    /\ thread_pc = "done"
    /\ main_pc' = next
    /\ UNCHANGED <<stdin, queues, sent>>
    /\ MainFrame

main_join_atm == join("join_atm", atm_pc, "join_bank")

main_join_bank == join("join_bank", bank_pc, "join_if")

main_join_if == join("join_if", if_pc, "exit")

Main ==
    \/ main_loop
    \/ clear_last_sender
    \/ main_bank_done
    \/ main_machine_done
    \/ main_interface_done
    \/ main_join_atm
    \/ main_join_bank
    \/ main_join_if

\* ------------------------------------------------------------------ bank and interface

\* The amounts the bank reports as a balance.
Balances == {123}

\* What the bank may answer to a request; NoMsg is no answer.
bank_replies(msg) ==
    CASE msg.shape = "verify_pin" -> {pin_verified, pin_incorrect, NoMsg}
      [] msg.shape = "withdraw" -> {withdraw_ok, withdraw_denied, NoMsg}
      [] msg.shape = "get_balance" -> {balance(a) : a \in Balances} \cup {NoMsg}
      [] OTHER -> {NoMsg}

PeerFrame ==
    UNCHANGED <<stdin, scripted, main_pc, popped, fate, atm_pc, state_, account_, pin_,
                withdrawal_amount_, bank_, interface_hardware_, chain, moved_from>>

\* bank_machine::run: one message, answered on the sender the request carries.
bank_run ==
    /\ bank_pc = "run"
    /\ queues["bank"] # <<>>
    /\ LET p == wait_and_pop(queues["bank"])
           n0 == [q |-> [queues EXCEPT !["bank"] = p.rest], log |-> sent]
       IN /\ p.msg.shape # "close_queue"
          /\ \E reply \in bank_replies(p.msg) :
                LET answer == IF scripted THEN [reply EXCEPT !.re = p.msg.id] ELSE reply
                    net == IF reply = NoMsg THEN n0 ELSE send(n0, p.msg.atm_queue, answer)
                IN /\ queues' = net.q
                   /\ sent' = net.log
    /\ UNCHANGED <<bank_pc, if_pc>>
    /\ PeerFrame

bank_close ==
    /\ bank_pc = "run"
    /\ queues["bank"] # <<>>
    /\ Head(queues["bank"]).shape = "close_queue"
    /\ queues' = [queues EXCEPT !["bank"] = Tail(@)]
    /\ bank_pc' = "done"
    /\ UNCHANGED <<sent, if_pc>>
    /\ PeerFrame

\* interface_machine::run: one message.
interface_run ==
    /\ if_pc = "run"
    /\ queues["interface"] # <<>>
    /\ Head(queues["interface"]).shape # "close_queue"
    /\ queues' = [queues EXCEPT !["interface"] = Tail(@)]
    /\ UNCHANGED <<sent, bank_pc, if_pc>>
    /\ PeerFrame

interface_close ==
    /\ if_pc = "run"
    /\ queues["interface"] # <<>>
    /\ Head(queues["interface"]).shape = "close_queue"
    /\ queues' = [queues EXCEPT !["interface"] = Tail(@)]
    /\ if_pc' = "done"
    /\ UNCHANGED <<sent, bank_pc>>
    /\ PeerFrame

Peers ==
    \/ bank_run
    \/ bank_close
    \/ interface_run
    \/ interface_close

\* ------------------------------------------------------------------ specifications

\* The state after main has constructed the three machines and started their threads.
Constructed ==
    /\ main_pc = "loop"
    /\ queues = [n \in QueueNames |-> <<>>]
    /\ sent = [n \in QueueNames |-> <<>>]
    /\ popped = <<>>
    /\ fate = "none"
    /\ atm_pc = "start"
    /\ state_ = NULL
    /\ account_ = ""
    /\ pin_ = <<>>
    /\ withdrawal_amount_ = 0
    /\ bank_ = get_sender("bank")
    /\ interface_hardware_ = get_sender("interface")
    /\ chain = <<>>
    /\ moved_from = <<>>
    /\ bank_pc = "run"
    /\ if_pc = "run"

\* The program on an unknown input.
Init ==
    /\ stdin = <<>>
    /\ scripted = FALSE
    /\ Constructed

Next == Atm \/ Main \/ Peers

Spec == Init /\ [][Next]_vars

\* The steps of main after its loop.
MainShutdown ==
    \/ main_bank_done
    \/ main_machine_done
    \/ main_interface_done
    \/ main_join_atm
    \/ main_join_bank
    \/ main_join_if

\* The program on an unknown input with every thread scheduled again and again:
\* a step one of the four threads can take is eventually taken (the keyboard
\* loop alone may wait for input for ever).
FairSpec ==
    /\ Spec
    /\ WF_vars(Atm)
    /\ WF_vars(bank_run \/ bank_close)
    /\ WF_vars(interface_run \/ interface_close)
    /\ WF_vars(MainShutdown)

\* The input scripts: the end-to-end scenarios and inputs that cancel, correct
\* the PIN, press keys a state does not take, and start a second session.
Scripts ==
    { <<"i", "1", "2", "3", "4", "w", "q">>,
      <<"i", "1", "2", "3", "4", "w", "c", "q">>,
      <<"i", "1", "2", "3", "4", "b", "c", "q">>,
      <<"i", "1", "2", "3", "<", "3", "4", "q">>,
      <<"w", "i", "<", "1", "c", "i", "2", "q">>,
      <<"i", "1", "2", "3", "4", "c", "i", "1", "2", "3", "4", "w", "q">>,
      <<"w", "i", "w", "1", "b", "2", "3", "4", "w", "c", "q">> }

\* The program on one of the input scripts, with pushes and pops recorded.
InitScript ==
    /\ stdin \in Scripts
    /\ scripted = TRUE
    /\ Constructed

SpecScript == InitScript /\ [][Next]_vars

\* ------------------------------------------------------------------ a generic agent

\* An agent other than the ATM on the same substrate: each turn of its loop is
\* receiver.wait() followed by any number of handle<Shape>(f) with any shapes,
\* repeated shapes included. Its senders bank_ and interface_hardware_ are
\* default-constructed, and each handler assigns nothing and forwards the
\* message on bank_.

\* The shapes the generic agent registers cases for.
AgentCases == {"digit_pressed", "cancel_pressed"}

\* The shapes sent to the generic agent.
AgentShapes == AgentCases \cup {"balance_pressed", "close_queue"}

agent_handler(msg) == [stay EXCEPT !.sends = <<to(bank_, msg)>>]

\* receiver::wait in the agent's loop.
agent_wait ==
    /\ atm_pc = "call"
    /\ state_ = NULL
    /\ moved_from = <<>>
    /\ chain' = wait
    /\ atm_pc' = "build"
    /\ UNCHANGED <<queues, sent, popped, fate, state_, account_, pin_, withdrawal_amount_>>
    /\ AgentFrame

\* dispatcher::handle / TemplateDispatcher::handle on the newest temporary.
agent_handle ==
    /\ atm_pc = "build"
    /\ Len(chain) <= MaxChain
    /\ \E shape \in AgentCases : chain' = handle(chain, shape)
    /\ UNCHANGED <<queues, sent, popped, fate, atm_pc, state_, account_, pin_,
                   withdrawal_amount_>>
    /\ AgentFrame

\* The end of the full expression: the destructors of the temporaries.
agent_scope_exit ==
    /\ atm_pc = "build"
    /\ chain' = destroy(chain)
    /\ atm_pc' = IF chain' = <<>> THEN "call" ELSE "recv"
    /\ UNCHANGED <<queues, sent, popped, fate, state_, account_, pin_, withdrawal_amount_>>
    /\ AgentFrame

\* A turn of the agent that ends in one of its handlers.
agent_handled == \E shape \in AgentCases : Handled(NULL, shape, agent_handler(popped_msg))

\* sender::send of any shape from any holder of the agent's sender.
agent_send ==
    /\ Len(sent[incoming_]) < MaxSent
    /\ \E shape \in AgentShapes :
          LET net == send(Net, get_sender(incoming_), wrapped_message(shape))
          IN /\ queues' = net.q
             /\ sent' = net.log
    /\ UNCHANGED <<stdin, main_pc>>
    /\ MainFrame

\* The generic agent in its loop, nothing sent yet.
InitChain ==
    /\ stdin = <<>>
    /\ scripted = TRUE
    /\ main_pc = "loop"
    /\ queues = [n \in QueueNames |-> <<>>]
    /\ sent = [n \in QueueNames |-> <<>>]
    /\ popped = <<>>
    /\ fate = "none"
    /\ atm_pc = "call"
    /\ state_ = NULL
    /\ account_ = ""
    /\ pin_ = <<>>
    /\ withdrawal_amount_ = 0
    /\ bank_ = NULL
    /\ interface_hardware_ = NULL
    /\ chain = <<>>
    /\ moved_from = <<>>
    /\ bank_pc = "run"
    /\ if_pc = "run"

NextChain ==
    \/ agent_wait
    \/ agent_handle
    \/ agent_scope_exit
    \/ agent_handled
    \/ agent_send
    \/ wait_and_dispatch_unmatched
    \/ wait_and_dispatch_close

SpecChain == InitChain /\ [][NextChain]_vars

\* --- the generic agent with moved dispatchers

\* A turn of the generic agent may move-construct a dispatcher from its newest
\* one and go on with the destination. The source is a named object of the
\* turn's scope: constructed before the destination, it is destroyed after the
\* destination and everything chained to it.

\* dispatcher(dispatcher &&) or TemplateDispatcher(TemplateDispatcher &&) applied
\* to the newest dispatcher of the turn.
agent_move ==
    /\ atm_pc = "build"
    /\ moved_from = <<>>
    /\ LET m == move(chain[Len(chain)])
       IN /\ chain' = [chain EXCEPT ![Len(chain)] = m.dest]
          /\ moved_from' = <<m.other>>
    /\ UNCHANGED <<queues, sent, popped, fate, atm_pc, state_, account_, pin_,
                   withdrawal_amount_>>
    /\ UNCHANGED <<stdin, scripted, main_pc, bank_, interface_hardware_, bank_pc, if_pc>>

\* ~dispatcher / ~TemplateDispatcher of the source, once the destination's chain
\* is gone, at the normal end of the scope ("call") or while close_queue unwinds
\* it ("done"): a chained source does nothing, another one blocks in its own
\* wait_and_dispatch.
source_destroyed ==
    /\ atm_pc \in {"call", "done"}
    /\ moved_from # <<>>
    /\ chain' = destroy(moved_from)
    /\ moved_from' = <<>>
    /\ atm_pc' = IF chain' = <<>> THEN atm_pc
                 ELSE IF atm_pc = "call" THEN "source" ELSE "source_unwinding"
    /\ UNCHANGED <<queues, sent, popped, fate, state_, account_, pin_, withdrawal_amount_>>
    /\ UNCHANGED <<stdin, scripted, main_pc, bank_, interface_hardware_, bank_pc, if_pc>>

\* One iteration of the wait_and_dispatch of a source: a message no case takes
\* is dropped and the loop goes on; a handled one ends the loop; close_queue is
\* thrown, to the agent's loop or, if the scope is already being unwound, to
\* std::terminate.
source_wait_and_dispatch ==
    /\ atm_pc \in {"source", "source_unwinding"}
    /\ queues[incoming_] # <<>>
    /\ LET p == wait_and_pop(queues[incoming_])
           r == dispatch(chain, Len(chain), p.msg)
           f == IF r.thrown THEN "closed" ELSE IF r.ran # <<>> THEN "handled" ELSE "dropped"
       IN /\ queues' = [queues EXCEPT ![incoming_] = p.rest]
          /\ popped' = Popped(p.msg, f, r)
          /\ fate' = f
          /\ chain' = IF f = "dropped" THEN chain ELSE <<>>
          /\ atm_pc' = CASE f = "dropped" -> atm_pc
                         [] f = "handled" -> IF atm_pc = "source" THEN "call" ELSE "done"
                         [] f = "closed" -> IF atm_pc = "source" THEN "done" ELSE "terminate"
    /\ UNCHANGED <<sent, state_, account_, pin_, withdrawal_amount_>>
    /\ AgentFrame

NextMove ==
    \/ NextChain
    \/ agent_move
    \/ source_destroyed
    \/ source_wait_and_dispatch

SpecMove == InitChain /\ [][NextMove]_vars

\* ------------------------------------------------------------------ claims

\* A message without the position of its push and the request it answers.
Strip(msg) == [msg EXCEPT !.id = 0, !.re = 0]

StripAll(seq) == [i \in 1..Len(seq) |-> Strip(seq[i])]

IsPrefix(a, b) == Len(a) <= Len(b) /\ a = SubSeq(b, 1, Len(a))

\* The shapes each state accepts according to the state table.
ClaimCases(st) ==
    CASE st = "waiting_for_card" -> {"card_inserted"}
      [] st = "getting_pin" -> {"digit_pressed", "clear_last_pressed", "cancel_pressed"}
      [] st = "verifying_pin" -> {"pin_verified", "pin_incorrect", "cancel_pressed"}
      [] st = "wait_for_action" -> {"withdraw_pressed", "balance_pressed", "cancel_pressed"}
      [] st = "process_withdrawal" -> {"withdraw_ok", "withdraw_denied", "cancel_pressed"}
      [] st = "process_balance" -> {"balance", "cancel_pressed"}
      [] OTHER -> {}

ReceivingStates ==
    {"waiting_for_card", "getting_pin", "verifying_pin", "wait_for_action",
     "process_withdrawal", "process_balance"}

\* C1: FIFO per queue. Pushes on a queue are numbered in the order they complete;
\* every queue holds its messages in increasing push order, the ATM's receive
\* turns pop in increasing push order, and whatever is still queued was pushed
\* after everything already popped, whoever the senders were.
C1_FifoPerQueue ==
    /\ \A n \in QueueNames : \A i, j \in 1..Len(queues[n]) :
          i < j => queues[n][i].id < queues[n][j].id
    /\ \A i, j \in 1..Len(popped) : i < j => popped[i].msg.id < popped[j].msg.id
    /\ \A i \in 1..Len(popped) : \A j \in 1..Len(queues[incoming_]) :
          popped[i].msg.id < queues[incoming_][j].id

\* C1 witness: the ATM has popped a key, then a reply of the bank, then the
\* close of done(), pushed by three different senders.
C1_Witness ==
    \E i, j, k \in 1..Len(popped) :
        /\ i < j /\ j < k
        /\ popped[i].msg.shape = "digit_pressed"
        /\ popped[j].msg.shape = "pin_verified"
        /\ popped[k].msg.shape = "close_queue"

\* C2: no loss and no re-delivery. Every push on the ATM's queue is either still
\* queued or popped, exactly once in all; a popped message is the pushed one;
\* and its fate is one of: handled by exactly one handler of a case of its
\* shape, dropped by a turn with no case of its shape, or a close consumed by
\* the base policy.
C2_NoLossNoRedelivery ==
    /\ \A k \in 1..Len(sent[incoming_]) :
          Cardinality({i \in 1..Len(popped) : popped[i].msg.id = k})
            + Cardinality({j \in 1..Len(queues[incoming_]) : queues[incoming_][j].id = k}) = 1
    /\ \A i \in 1..Len(popped) :
          LET rec == popped[i]
          IN /\ rec.msg.id \in 1..Len(sent[incoming_])
             /\ sent[incoming_][rec.msg.id] = rec.msg
             /\ \/ /\ rec.fate = "handled"
                   /\ Len(rec.ran) = 1
                   /\ rec.chain[rec.ran[1]].shape = rec.msg.shape
                   /\ rec.msg.shape \in ClaimCases(rec.st)
                \/ /\ rec.fate = "dropped"
                   /\ rec.ran = <<>>
                   /\ rec.msg.shape \notin ClaimCases(rec.st) \cup {"close_queue"}
                \/ /\ rec.fate = "closed"
                   /\ rec.ran = <<>>
                   /\ rec.msg.shape = "close_queue"
    /\ \A j \in 1..Len(queues[incoming_]) :
          queues[incoming_][j] = sent[incoming_][queues[incoming_][j].id]

\* C2 witness: all three fates have occurred and a pushed message is still queued.
C2_Witness ==
    /\ \E i \in 1..Len(popped) : popped[i].fate = "handled"
    /\ \E i \in 1..Len(popped) : popped[i].fate = "dropped"
    /\ \E i \in 1..Len(popped) : popped[i].fate = "closed"
    /\ queues[incoming_] # <<>>

\* C3: tail-first match with shadowing. A popped message is offered to the links
\* from the newest downwards; it stops at the newest case of its shape, whose
\* handler alone runs; with no such case it reaches the base dispatcher and no
\* handler runs.
C3_TailFirstMatch ==
    \A i \in 1..Len(popped) :
        LET rec == popped[i]
            n == Len(rec.chain)
            matching == {k \in 2..n : rec.chain[k].shape = rec.msg.shape}
        IN IF matching # {}
           THEN LET newest == CHOOSE k \in matching : \A j \in matching : j <= k
                IN /\ rec.ran = <<newest>>
                   /\ rec.probes = [j \in 1..(n - newest + 1) |-> n + 1 - j]
                   /\ rec.fate = "handled"
           ELSE /\ rec.ran = <<>>
                /\ rec.probes = [j \in 1..n |-> n + 1 - j]
                /\ rec.fate \in {"dropped", "closed"}

\* C3 witness: a chain with two cases of one shape and a third of another
\* received that shape; the later of the two handled it.
C3_Witness ==
    \E i \in 1..Len(popped) :
        LET rec == popped[i]
        IN /\ Len(rec.chain) = 3
           /\ rec.chain[2].shape = rec.msg.shape
           /\ rec.chain[3].shape = rec.msg.shape
           /\ rec.ran = <<3>>

\* What a step pushes on queue n (no step both pops from and pushes on a queue).
Pushed(n) ==
    IF Len(queues'[n]) > Len(queues[n])
    THEN SubSeq(queues'[n], Len(queues[n]) + 1, Len(queues'[n]))
    ELSE <<>>

\* The step pops from the ATM's queue: only the ATM's receive turn does.
AtmPops == Len(queues'[incoming_]) < Len(queues[incoming_])

\* C4: close terminates the agent for good. A turn that pops close is in one of
\* the six receiving states, runs no handler (nothing is sent or assigned) and
\* ends run; once run has returned the ATM pops nothing, sends nothing (only
\* main's done() still pushes a close on the other queues) and never changes
\* state again.
C4_CloseTerminates ==
    [][ /\ (AtmPops /\ Head(queues[incoming_]).shape = "close_queue") =>
              /\ state_ \in ReceivingStates
              /\ atm_pc = "recv"
              /\ atm_pc' = "done"
              /\ fate' = "closed"
              /\ Pushed("bank") = <<>>
              /\ Pushed("interface") = <<>>
              /\ UNCHANGED <<state_, account_, pin_, withdrawal_amount_>>
        /\ atm_pc = "done" =>
              /\ atm_pc' = "done"
              /\ ~AtmPops
              /\ UNCHANGED <<state_, account_, pin_, withdrawal_amount_, chain, fate>>
              /\ \A n \in {"bank", "interface"} :
                    Pushed(n) # <<>> => main_pc' # main_pc /\ Pushed(n) = <<close_queue>>
      ]_vars

\* C4 witness: run has returned on a close popped while a withdrawal was in
\* progress, and main has joined every thread since.
C4_Witness ==
    /\ atm_pc = "done"
    /\ fate = "closed"
    /\ state_ = "process_withdrawal"
    /\ main_pc = "exit"

\* C5: unmatched messages are dropped without effect. A pop of a message that is
\* not close and has no case in the current state removes it, sends nothing,
\* leaves state, account, pin and withdrawal amount alone and leaves the turn
\* waiting for the next message; a turn ends only on a pop of a message with a
\* case in the state or of a close.
C5_UnmatchedDropped ==
    [][ /\ (/\ AtmPops
            /\ Head(queues[incoming_]).shape \notin ClaimCases(state_) \cup {"close_queue"}) =>
              /\ queues'[incoming_] = Tail(queues[incoming_])
              /\ queues'["bank"] = queues["bank"]
              /\ queues'["interface"] = queues["interface"]
              /\ UNCHANGED <<state_, account_, pin_, withdrawal_amount_, chain>>
              /\ atm_pc = "recv"
              /\ atm_pc' = "recv"
              /\ fate' = "dropped"
        /\ (atm_pc = "recv" /\ atm_pc' # "recv") =>
              /\ AtmPops
              /\ Head(queues[incoming_]).shape \in ClaimCases(state_) \cup {"close_queue"}
      ]_vars

\* C5 witness: the turn of process_withdrawal has dropped a message and waits on.
C5_Witness ==
    /\ fate = "dropped"
    /\ atm_pc = "recv"
    /\ state_ = "process_withdrawal"

\* atm::done has pushed close on the ATM's queue.
CloseEnqueued == main_pc \in {"interface_done", "join_atm", "join_bank", "join_if", "exit"}

\* C6: shutdown terminates every agent. Once done() has pushed close on the
\* ATM's queue, whatever the ATM's state and whatever is queued ahead, run
\* eventually returns; and once the keyboard loop has ended, main eventually
\* passes its three joins.
C6_ShutdownTerminates ==
    /\ CloseEnqueued ~> (atm_pc = "done")
    /\ (main_pc # "loop") ~> (main_pc = "exit")

\* C6 witness: main has passed its joins, and the close reached the ATM while it
\* waited for the bank to verify a PIN.
C6_Witness ==
    /\ main_pc = "exit"
    /\ atm_pc = "done"
    /\ state_ = "verifying_pin"

\* The messages of a sequence other than close_queue.
NotClose(seq) == SelectSeq(seq, LAMBDA m : m.shape # "close_queue")

\* The input of the happy withdrawal, in the order it is pushed on the ATM's queue.
HappyInput ==
    <<card_inserted("acc1234"), digit_pressed("1"), digit_pressed("2"), digit_pressed("3"),
      digit_pressed("4"), pin_verified, withdraw_pressed(50), withdraw_ok>>

HappyInterface ==
    <<display_enter_card, display_enter_pin, display_withdrawal_options, issue_money(50),
      eject_card, display_enter_card>>

\* C7: happy withdrawal trace. While what has been pushed on the ATM's queue is
\* a prefix of the happy input (then the close of 'q'), what the ATM has sent
\* to the interface is a prefix of the expected six messages; once the ATM has
\* taken the whole input and waits again or has stopped, it is exactly the six.
C7_HappyWithdrawalTrace ==
    LET input == StripAll(sent[incoming_])
        shown == StripAll(NotClose(sent["interface"]))
    IN /\ IsPrefix(input, HappyInput \o <<close_queue>>) => IsPrefix(shown, HappyInterface)
       /\ (/\ IsPrefix(HappyInput, input)
           /\ IsPrefix(input, HappyInput \o <<close_queue>>)
           /\ Len(popped) >= Len(HappyInput)
           /\ atm_pc \in {"recv", "done"}) => shown = HappyInterface

\* C7 witness: the happy input has been handled to the end and the ATM waits
\* for the next card.
C7_Witness ==
    /\ StripAll(sent[incoming_]) = HappyInput
    /\ Len(popped) = Len(HappyInput)
    /\ atm_pc = "recv"
    /\ StripAll(sent["interface"]) = HappyInterface

\* C8: money is issued only on withdraw_ok. A step that sends issue_money is
\* the withdraw_ok handler of process_withdrawal: it sends issue_money with the
\* remembered amount and nothing else to the interface, withdrawal_processed
\* with the account and that amount to the bank, and goes to done_processing.
\* The remembered amount is that of the withdraw_pressed on which
\* process_withdrawal was entered and does not change while in it.
\* withdraw_denied sends display_insufficient_funds alone and goes to
\* done_processing.
C8_MoneyOnlyOnWithdrawOk ==
    [][ /\ (\E i \in 1..Len(Pushed("interface")) :
               Pushed("interface")[i].shape = "issue_money") =>
              /\ AtmPops
              /\ state_ = "process_withdrawal"
              /\ Head(queues[incoming_]).shape = "withdraw_ok"
        /\ (AtmPops /\ state_ = "process_withdrawal"
              /\ Head(queues[incoming_]).shape = "withdraw_ok") =>
              /\ Pushed("interface") = <<issue_money(withdrawal_amount_)>>
              /\ Pushed("bank") = <<withdrawal_processed(account_, withdrawal_amount_)>>
              /\ state_' = "done_processing"
        /\ (AtmPops /\ state_ = "process_withdrawal"
              /\ Head(queues[incoming_]).shape = "withdraw_denied") =>
              /\ Pushed("interface") = <<display_insufficient_funds>>
              /\ Pushed("bank") = <<>>
              /\ state_' = "done_processing"
        /\ (state_ # "process_withdrawal" /\ state_' = "process_withdrawal") =>
              /\ AtmPops
              /\ state_ = "wait_for_action"
              /\ Head(queues[incoming_]).shape = "withdraw_pressed"
              /\ withdrawal_amount_' = Head(queues[incoming_]).amount
        /\ state_ = "process_withdrawal" => UNCHANGED <<withdrawal_amount_, account_>>
      ]_vars

\* C8 witness: the withdraw_ok handler has just run: the money is issued to the
\* interface and the bank is told, both with the amount of the 'w' key.
C8_Witness ==
    /\ state_ = "done_processing"
    /\ fate = "handled"
    /\ queues["interface"] # <<>>
    /\ queues["interface"][Len(queues["interface"])] = issue_money(50)
    /\ queues["bank"] # <<>>
    /\ queues["bank"][Len(queues["bank"])] = withdrawal_processed("acc1234", 50)

\* C9: cancel during withdrawal. process_withdrawal is entered by sending
\* withdraw{account, amount} and keeps both; the cancel_pressed handler sends
\* cancel_withdrawal with that account and amount to the bank and
\* display_withdrawal_cancelled alone to the interface, and goes to
\* done_processing, whose only step sends eject_card and goes to
\* waiting_for_card.
C9_CancelDuringWithdrawal ==
    [][ /\ (state_ # "process_withdrawal" /\ state_' = "process_withdrawal") =>
              Pushed("bank") = <<withdraw(account_', withdrawal_amount_', get_sender(incoming_))>>
        /\ state_ = "process_withdrawal" => UNCHANGED <<withdrawal_amount_, account_>>
        /\ (AtmPops /\ state_ = "process_withdrawal"
              /\ Head(queues[incoming_]).shape = "cancel_pressed") =>
              /\ Pushed("bank") = <<cancel_withdrawal(account_, withdrawal_amount_)>>
              /\ Pushed("interface") = <<display_withdrawal_cancelled>>
              /\ state_' = "done_processing"
              /\ atm_pc' = "call"
        /\ (state_ = "done_processing" /\ (atm_pc' # atm_pc \/ state_' # state_ \/ AtmPops)) =>
              /\ Pushed("interface") = <<eject_card>>
              /\ Pushed("bank") = <<>>
              /\ ~AtmPops
              /\ state_' = "waiting_for_card"
      ]_vars

\* C9 witness: the cancel_pressed handler of process_withdrawal has just run
\* while the withdraw request was still in the bank's queue.
C9_Witness ==
    /\ state_ = "done_processing"
    /\ fate = "handled"
    /\ queues["bank"] =
          <<withdraw("acc1234", 50, get_sender(incoming_)), cancel_withdrawal("acc1234", 50)>>
    /\ queues["interface"] # <<>>
    /\ queues["interface"][Len(queues["interface"])] = display_withdrawal_cancelled

\* The PIN the claim prescribes after a sequence of pops: empty on
\* card_inserted, each digit handled in getting_pin appended, the last
\* character removed on each clear handled in getting_pin (none if empty).
RECURSIVE RefPin(_)
RefPin(log) ==
    IF log = <<>> THEN <<>>
    ELSE LET rec == log[Len(log)]
             pin == RefPin(SubSeq(log, 1, Len(log) - 1))
         IN CASE rec.st = "waiting_for_card" /\ rec.msg.shape = "card_inserted" -> <<>>
              [] rec.st = "getting_pin" /\ rec.msg.shape = "digit_pressed" ->
                    Append(pin, rec.msg.digit)
              [] rec.st = "getting_pin" /\ rec.msg.shape = "clear_last_pressed" ->
                    IF pin = <<>> THEN <<>> ELSE SubSeq(pin, 1, Len(pin) - 1)
              [] OTHER -> pin

\* The pops that are a digit bringing the prescribed PIN to four characters.
FourthDigits ==
    {i \in 1..Len(popped) :
        /\ popped[i].st = "getting_pin"
        /\ popped[i].msg.shape = "digit_pressed"
        /\ Len(RefPin(SubSeq(popped, 1, i))) = pin_length}

VerifyPins == SelectSeq(sent["bank"], LAMBDA m : m.shape = "verify_pin")

PinCorrectionInput ==
    <<card_inserted("acc1234"), digit_pressed("1"), digit_pressed("2"), digit_pressed("3"),
      clear_last_pressed, digit_pressed("3"), digit_pressed("4")>>

\* C10: PIN accumulation. The pin is the prescribed one after every pop; one
\* verify_pin has been sent per digit that brought the pin to four characters
\* and none otherwise, the k-th carrying the account and the pin of the k-th
\* such digit; the ATM is in verifying_pin only with a pin of four characters,
\* the one of the last verify_pin; and the input 1,2,3,clear,3,4 sends exactly
\* one verify_pin, with pin 1234.
C10_PinAccumulation ==
    /\ pin_ = RefPin(popped)
    /\ Len(VerifyPins) = Cardinality(FourthDigits)
    /\ \A k \in 1..Len(VerifyPins) :
          \E i \in FourthDigits :
              /\ Cardinality({j \in FourthDigits : j <= i}) = k
              /\ Strip(VerifyPins[k]) =
                    verify_pin("acc1234", RefPin(SubSeq(popped, 1, i)), get_sender(incoming_))
    /\ state_ = "verifying_pin" =>
          /\ Len(pin_) = pin_length
          /\ VerifyPins # <<>>
          /\ VerifyPins[Len(VerifyPins)].pin = pin_
    /\ state_ = "getting_pin" => Len(pin_) < pin_length
    /\ (IsPrefix(PinCorrectionInput, StripAll(sent[incoming_]))
          /\ Len(popped) = Len(PinCorrectionInput)) =>
          StripAll(VerifyPins) =
              <<verify_pin("acc1234", <<"1", "2", "3", "4">>, get_sender(incoming_))>>

\* C10 witness: 1,2,3,clear,3,4 has been handled and one verify_pin with 1234
\* has been sent.
C10_Witness ==
    /\ IsPrefix(PinCorrectionInput, StripAll(sent[incoming_]))
    /\ Len(popped) = Len(PinCorrectionInput)
    /\ state_ = "verifying_pin"
    /\ pin_ = <<"1", "2", "3", "4">>
    /\ Len(VerifyPins) = 1

\* The input of the balance query, in the order it is pushed on the ATM's queue.
BalanceInput ==
    <<card_inserted("acc1234"), digit_pressed("1"), digit_pressed("2"), digit_pressed("3"),
      digit_pressed("4"), pin_verified, balance_pressed, balance(123), cancel_pressed>>

BalanceInterface ==
    <<display_enter_card, display_enter_pin, display_withdrawal_options, display_balance(123),
      display_withdrawal_options, eject_card, display_enter_card>>

\* C11: balance query. The balance handler of process_balance sends
\* display_balance with the amount of the popped reply, alone, to the interface,
\* nothing to the bank, and goes to wait_for_action. On the input i, 1, 2, 3, 4,
\* pin_verified, b, balance{123}, c the interface receives display_balance{123}
\* and later eject_card, with the display_withdrawal_options of the return to
\* wait_for_action between them.
C11_BalanceQuery ==
    /\ [][ (AtmPops /\ state_ = "process_balance"
              /\ Head(queues[incoming_]).shape = "balance") =>
              /\ StripAll(Pushed("interface")) =
                    <<display_balance(Head(queues[incoming_]).amount)>>
              /\ Pushed("bank") = <<>>
              /\ state_' = "wait_for_action"
              /\ atm_pc' = "call"
          ]_vars
    /\ [](LET input == StripAll(sent[incoming_])
              shown == StripAll(NotClose(sent["interface"]))
          IN /\ IsPrefix(input, BalanceInput \o <<close_queue>>) =>
                    IsPrefix(shown, BalanceInterface)
             /\ (/\ IsPrefix(BalanceInput, input)
                 /\ IsPrefix(input, BalanceInput \o <<close_queue>>)
                 /\ Len(popped) >= Len(BalanceInput)
                 /\ atm_pc \in {"recv", "done"}) => shown = BalanceInterface)

\* C11 witness: the balance was shown, cancel was handled and the card ejected.
C11_Witness ==
    /\ StripAll(sent[incoming_]) = BalanceInput
    /\ Len(popped) = Len(BalanceInput)
    /\ popped[8].st = "process_balance"
    /\ popped[8].fate = "handled"
    /\ popped[9].st = "wait_for_action"
    /\ IsPrefix(<<display_enter_card, display_enter_pin, display_withdrawal_options,
                  display_balance(123), display_withdrawal_options, eject_card>>,
                StripAll(sent["interface"]))

\* C12: send on an unbound sender is a silent no-op. A handler of the generic
\* agent that sends on its default-constructed sender leaves every queue as the
\* pop left it, records no push, changes no member and returns normally. A send
\* on the bound sender appends exactly one message, the one sent, to that
\* sender's queue and to no other, and is possible whatever the queue holds and
\* whatever the receiver is doing.
C12_UnboundSendIsNoOp ==
    /\ [][ /\ (AtmPops /\ popped'[Len(popped')].fate = "handled") =>
                 /\ bank_ = NULL
                 /\ queues' = [queues EXCEPT ![incoming_] = Tail(@)]
                 /\ sent' = sent
                 /\ atm_pc' = "call"
                 /\ UNCHANGED <<state_, account_, pin_, withdrawal_amount_, bank_,
                                interface_hardware_>>
           /\ sent' # sent =>
                 /\ \A n \in QueueNames \ {incoming_} :
                       sent'[n] = sent[n] /\ queues'[n] = queues[n]
                 /\ Len(sent'[incoming_]) = Len(sent[incoming_]) + 1
                 /\ queues'[incoming_] =
                       Append(queues[incoming_], sent'[incoming_][Len(sent'[incoming_])])
         ]_vars
    /\ [](Len(sent[incoming_]) < MaxSent => ENABLED agent_send)

\* C12 witness: a handler has sent on the unbound sender while a message sent
\* on the bound one was still queued.
C12_Witness ==
    /\ bank_ = NULL
    /\ fate = "handled"
    /\ popped # <<>>
    /\ popped[Len(popped)].fate = "handled"
    /\ queues["bank"] = <<>>
    /\ sent["bank"] = <<>>
    /\ queues[incoming_] # <<>>

\* The ATM's receive turn is waiting on an empty queue.
Blocked == atm_pc = "recv" /\ queues[incoming_] = <<>>

\* C13: receive blocks on empty. While the ATM's turn waits on an empty queue
\* the ATM thread can take no step: whatever happens, no message is popped, no
\* handler runs (nothing the ATM sends is pushed, no member changes) and the
\* turn does not return. As soon as the queue holds a message the turn can go
\* on.
C13_ReceiveBlocksOnEmpty ==
    /\ [](Blocked => ~ENABLED Atm)
    /\ [][ Blocked =>
             /\ UNCHANGED <<atm_pc, chain, state_, account_, pin_, withdrawal_amount_,
                            popped, fate>>
             /\ \A n \in {"bank", "interface"} :
                   StripAll(Pushed(n)) \in {<<>>, <<close_queue>>}
         ]_vars
    /\ []((atm_pc = "recv" /\ queues[incoming_] # <<>>) => ENABLED Atm)

\* C13 witness: the turn of getting_pin, which had handled two digits, waits on
\* an empty queue while the input goes on.
C13_Witness ==
    /\ Blocked
    /\ state_ = "getting_pin"
    /\ Len(pin_) = 2
    /\ main_pc = "loop"
    /\ stdin # <<>>

\* Exactly the newest link of a chain is not marked chained.
TailOnly(ch) == \A k \in 1..Len(ch) : ch[k].chained <=> k < Len(ch)

\* C14: exactly one execution per chain. While a chain is being built and
\* while its turn runs, the newest link alone is not marked chained. At scope
\* exit the tail blocks in its wait_and_dispatch with every link still there and
\* nothing popped; every pop of the turn is dispatched from the tail; and the
\* step in which a handler runs pops one message, runs that one handler and
\* ends the turn: the destructors of the earlier links return without a pop.
C14_OneExecutionPerChain ==
    /\ [](TailOnly(chain))
    /\ [](\A i \in 1..Len(popped) :
             /\ TailOnly(popped[i].chain)
             /\ popped[i].probes[1] = Len(popped[i].chain)
             /\ Len(popped[i].ran) = IF popped[i].fate = "handled" THEN 1 ELSE 0)
    /\ [][ /\ (atm_pc = "build" /\ atm_pc' # "build") =>
                 chain' = chain /\ atm_pc' = "recv" /\ UNCHANGED <<queues, popped>>
           /\ (AtmPops /\ popped'[Len(popped')].fate = "handled") =>
                 /\ queues'[incoming_] = Tail(queues[incoming_])
                 /\ Len(popped') = Len(popped) + 1
                 /\ chain' = <<>>
                 /\ atm_pc' = "call"
           /\ (AtmPops /\ popped'[Len(popped')].fate = "dropped") =>
                 chain' = chain /\ atm_pc' = "recv"
         ]_vars

\* C14 witness: a turn with two cases behind the base dispatcher has ended in
\* one handler, after it had dropped a message.
C14_Witness ==
    /\ Len(popped) >= 2
    /\ Len(popped[Len(popped)].chain) = 3
    /\ popped[Len(popped)].fate = "handled"
    /\ popped[Len(popped) - 1].fate = "dropped"
    /\ popped[Len(popped) - 1].chain = popped[Len(popped)].chain
    /\ chain = <<>>
    /\ atm_pc = "call"

\* C15: move transfers the active-tail role. After a move construction from the
\* newest dispatcher of a turn, base dispatcher or TemplateDispatcher link, the
\* destination has the flag the source had and the source is marked chained;
\* the destructor of a source never waits for a message, so of the two objects
\* only the destination receives.
C15_MoveTransfersActiveTail ==
    /\ [][ (moved_from = <<>> /\ moved_from' # <<>>) =>
              /\ chain'[Len(chain')].chained = chain[Len(chain)].chained
              /\ moved_from'[1].chained
         ]_vars
    /\ [](atm_pc \notin {"source", "source_unwinding"})

\* C16: turn lifetime. The step in which a receive turn leaves its scope pops
\* a message, so the turn has consumed at least one, and that message was
\* handled by a registered case of its shape, after which the turn returns, or
\* was close_queue, which the base dispatcher throws; the messages the turn
\* popped before were dropped and did not end it. A turn of wait() alone, whose
\* base dispatcher is the tail, is no exception: it runs no handler and leaves
\* its scope on close_queue only.
C16_TurnLifetime ==
    /\ [][ (atm_pc = "recv" /\ atm_pc' # "recv") =>
              /\ AtmPops
              /\ Len(popped') = Len(popped) + 1
              /\ LET rec == popped'[Len(popped')]
                 IN /\ rec.chain = chain
                    /\ rec.fate \in {"handled", "closed"}
                    /\ rec.fate = "handled" =>
                          /\ \E k \in 2..Len(chain) : chain[k].shape = rec.msg.shape
                          /\ atm_pc' = "call"
                    /\ rec.fate = "closed" =>
                          /\ rec.msg.shape = "close_queue"
                          /\ atm_pc' = "done"
                    /\ chain = wait => rec.fate = "closed"
              /\ chain' = <<>>
         ]_vars
    /\ [](\A i \in 1..Len(popped) :
             /\ popped[i].chain = wait => popped[i].fate \in {"dropped", "closed"}
             /\ (popped[i].fate = "dropped" /\ i < Len(popped)) =>
                   popped[i + 1].chain = popped[i].chain)

\* C16 witness: a turn of wait() alone has dropped a message and then left its
\* scope on close_queue.
C16_Witness ==
    /\ atm_pc = "done"
    /\ Len(popped) = 2
    /\ popped[1].chain = wait
    /\ popped[1].fate = "dropped"
    /\ popped[2].chain = wait
    /\ popped[2].fate = "closed"

\* What the ATM has sent to the interface (the close_queue of
\* interface_machine::done is not sent by the ATM).
Shown == StripAll(NotClose(sent["interface"]))

\* C17: every session ends with an eject. atm::run starts in waiting_for_card,
\* so the first message to the interface is display_enter_card. The step of
\* done_processing pops nothing, sends eject_card alone and goes to
\* waiting_for_card. Hence every later display_enter_card comes right after an
\* eject_card, and between a display_enter_pin and the next display_enter_card
\* there is exactly one eject_card.
C17_SessionEndsWithEject ==
    /\ [][ /\ (atm_pc = "start" /\ atm_pc' # "start") => state_' = "waiting_for_card"
           /\ (state_ = "done_processing" /\ state_' # state_) =>
                 /\ ~AtmPops
                 /\ popped' = popped
                 /\ StripAll(Pushed("interface")) = <<eject_card>>
                 /\ Pushed("bank") = <<>>
                 /\ state_' = "waiting_for_card"
         ]_vars
    /\ [](/\ Shown # <<>> => Shown[1] = display_enter_card
          /\ \A i \in 2..Len(Shown) :
                Shown[i] = display_enter_card => Shown[i - 1] = eject_card
          /\ \A i \in 1..Len(Shown) : \A j \in (i + 1)..Len(Shown) :
                (/\ Shown[i] = display_enter_pin
                 /\ Shown[j] = display_enter_card
                 /\ \A k \in (i + 1)..(j - 1) : Shown[k] # display_enter_card) =>
                   Cardinality({k \in (i + 1)..(j - 1) : Shown[k] = eject_card}) = 1)

\* C17 witness: two sessions have ended, each with its eject_card before the
\* next display_enter_card.
C17_Witness ==
    /\ Cardinality({i \in 1..Len(Shown) : Shown[i] = eject_card}) = 2
    /\ Cardinality({i \in 1..Len(Shown) : Shown[i] = display_enter_pin}) = 2
    /\ Cardinality({i \in 1..Len(Shown) : Shown[i] = display_enter_card}) = 3
    /\ Shown[Len(Shown)] = display_enter_card

\* C18: the pin is bounded. In every reachable state, on any input and any
\* replies, the pin has at most pin_length characters, and while the ATM waits
\* for a message in getting_pin it has fewer.
C18_PinBounded ==
    /\ Len(pin_) <= pin_length
    /\ (state_ = "getting_pin" /\ atm_pc = "recv") => Len(pin_) <= pin_length - 1

\* C18 witness: in a later session the ATM waits in getting_pin with three
\* digits entered while the bank's reply to the verify_pin of a cancelled
\* session is in its queue.
C18_Witness ==
    /\ state_ = "getting_pin"
    /\ atm_pc = "recv"
    /\ Len(pin_) = pin_length - 1
    /\ \E i \in 1..Len(queues[incoming_]) : queues[incoming_][i].shape = "pin_verified"

\* The id of the most recent request of a shape the ATM has sent to the bank, 0
\* if there is none.
LastRequest(shape) ==
    LET ids == {i \in 1..Len(sent["bank"]) : sent["bank"][i].shape = shape}
    IN IF ids = {} THEN 0 ELSE sent["bank"][CHOOSE i \in ids : \A j \in ids : j <= i].id

\* C19: replies are matched to the current request. A pin_verified handled in
\* verifying_pin is the bank's reply to the most recent verify_pin the ATM has
\* sent, and a withdraw_ok handled in process_withdrawal its reply to the most
\* recent withdraw; so when issue_money is sent, the bank has answered the most
\* recent withdraw with withdraw_ok.
C19_RepliesMatchCurrentRequest ==
    [][ /\ (AtmPops /\ state_ = "verifying_pin"
              /\ Head(queues[incoming_]).shape = "pin_verified") =>
              Head(queues[incoming_]).re = LastRequest("verify_pin")
        /\ (AtmPops /\ state_ = "process_withdrawal"
              /\ Head(queues[incoming_]).shape = "withdraw_ok") =>
              Head(queues[incoming_]).re = LastRequest("withdraw")
        /\ (\E i \in 1..Len(Pushed("interface")) :
               Pushed("interface")[i].shape = "issue_money") =>
              \E k \in 1..Len(sent[incoming_]) :
                  /\ sent[incoming_][k].shape = "withdraw_ok"
                  /\ sent[incoming_][k].re = LastRequest("withdraw")
      ]_vars

\* A pin_verified has been handled in verifying_pin since the most recent
\* card_inserted was handled.
Verified ==
    \E i \in 1..Len(popped) :
        /\ popped[i].fate = "handled"
        /\ popped[i].st = "verifying_pin"
        /\ popped[i].msg.shape = "pin_verified"
        /\ \A j \in (i + 1)..Len(popped) :
              ~(popped[j].fate = "handled" /\ popped[j].msg.shape = "card_inserted")

\* C20: no action without a verified PIN. The ATM is in wait_for_action,
\* process_withdrawal or process_balance only in a session with a handled
\* pin_verified; it sends withdraw and get_balance to the bank and
\* display_withdrawal_options to the interface only from wait_for_action, in
\* such a session; and a withdraw_pressed or balance_pressed popped in
\* waiting_for_card, getting_pin or verifying_pin sends nothing and changes
\* nothing.
C20_NoActionWithoutVerifiedPin ==
    /\ [](state_ \in {"wait_for_action", "process_withdrawal", "process_balance"} => Verified)
    /\ [][ /\ (\/ \E i \in 1..Len(Pushed("bank")) :
                    Pushed("bank")[i].shape \in {"withdraw", "get_balance"}
               \/ \E i \in 1..Len(Pushed("interface")) :
                    Pushed("interface")[i].shape = "display_withdrawal_options") =>
                 state_ = "wait_for_action" /\ Verified
           /\ (/\ AtmPops
               /\ Head(queues[incoming_]).shape \in {"withdraw_pressed", "balance_pressed"}
               /\ state_ \in {"waiting_for_card", "getting_pin", "verifying_pin"}) =>
                 /\ Pushed("bank") = <<>>
                 /\ Pushed("interface") = <<>>
                 /\ popped'[Len(popped')].fate = "dropped"
                 /\ UNCHANGED <<state_, account_, pin_, withdrawal_amount_, atm_pc>>
         ]_vars

\* C20 witness: withdraw_pressed was dropped in waiting_for_card, in getting_pin
\* and in verifying_pin and balance_pressed in getting_pin, no request but
\* verify_pin went to the bank, and the PIN was verified afterwards.
C20_Witness ==
    /\ \A st \in {"waiting_for_card", "getting_pin", "verifying_pin"} :
          \E i \in 1..Len(popped) :
              /\ popped[i].st = st
              /\ popped[i].msg.shape = "withdraw_pressed"
              /\ popped[i].fate = "dropped"
    /\ \E i \in 1..Len(popped) :
          /\ popped[i].st = "getting_pin"
          /\ popped[i].msg.shape = "balance_pressed"
          /\ popped[i].fate = "dropped"
    /\ \A i \in 1..Len(sent["bank"]) : sent["bank"][i].shape = "verify_pin"
    /\ state_ = "wait_for_action"
    /\ Verified

====
